---- MODULE Spec2Model ----
(***************************************************************************)
(* Model of sdk/c/hash/lib/sha256.c: the streaming SHA-256 engine built on *)
(* one global context (sctx), its compression function, Hash_Init,         *)
(* Hash_Update, Hash_Final and the one-shot SHA256_Digest.                 *)
(*                                                                         *)
(* A uint32_t is a pair <<hi, lo>> of 16-bit halves (TLC's integers are    *)
(* 32-bit signed), a uint64_t four 16-bit limbs.  Memory (ctx->message,    *)
(* ctx->hash as bytes, the input, the output) is a sequence of bytes; a    *)
(* word access through a uint32_t pointer is a little-endian load or       *)
(* store, as on wasm32.                                                    *)
(***************************************************************************)
EXTENDS Integers, Sequences, FiniteSets, TLC

\* ------------------------------------------------------------------------
\* uint32_t arithmetic
\* ------------------------------------------------------------------------

Half == 65536

RECURSIVE BitOp8(_, _, _, _)
\* One bitwise operator of C on two bytes: tt is its truth table on
\* <<0 0, 0 1, 1 0, 1 1>>.
BitOp8(tt, a, b, n) ==
  IF n = 0 THEN 0
  ELSE tt[2 * (a % 2) + (b % 2) + 1] + 2 * BitOp8(tt, a \div 2, b \div 2, n - 1)

\* ^ and & on bytes, tabulated once: entry 256 * a + b + 1 is a op b.
XorTab == <<>> \o [i \in 1..65536 |-> BitOp8(<<0, 1, 1, 0>>, (i - 1) \div 256, (i - 1) % 256, 8)]
AndTab == <<>> \o [i \in 1..65536 |-> BitOp8(<<0, 0, 0, 1>>, (i - 1) \div 256, (i - 1) % 256, 8)]

Xor16(a, b) ==
  256 * XorTab[256 * (a \div 256) + (b \div 256) + 1] + XorTab[256 * (a % 256) + (b % 256) + 1]
And16(a, b) ==
  256 * AndTab[256 * (a \div 256) + (b \div 256) + 1] + AndTab[256 * (a % 256) + (b % 256) + 1]

\* x ^ y, x & y, ~x on uint32_t
Xor32(x, y) == <<Xor16(x[1], y[1]), Xor16(x[2], y[2])>>
And32(x, y) == <<And16(x[1], y[1]), And16(x[2], y[2])>>
Not32(x) == <<Half - 1 - x[1], Half - 1 - x[2]>>

\* x + y on uint32_t: the sum modulo 2^32
Add32(x, y) ==
  LET lo == x[2] + y[2]
  IN <<(x[1] + y[1] + lo \div Half) % Half, lo % Half>>

\* x >> n and x << n on uint32_t, 0 <= n < 32 (bits shifted out are lost)
Shr32(x, n) ==
  IF n >= 16 THEN <<0, x[1] \div 2^(n - 16)>>
  ELSE <<x[1] \div 2^n, (x[2] \div 2^n) + (x[1] % 2^n) * 2^(16 - n)>>
Shl32(x, n) ==
  IF n >= 16 THEN <<(x[2] * 2^(n - 16)) % Half, 0>>
  ELSE <<((x[1] % 2^(16 - n)) * 2^n) + x[2] \div 2^(16 - n), (x[2] % 2^(16 - n)) * 2^n>>

\* ROTR32 without the bits that wrap around: a shift, not a rotation
ROTR32_ShiftOnly(dword, n) == Shr32(dword, n)

\* #define ROTR32(dword, n) ((dword) >> (n) ^ ((dword) << (32 - (n))))
ROTR32(dword, n) == Xor32(Shr32(dword, n), Shl32(dword, 32 - n))

\* __builtin_bswap32: the four bytes of x in the opposite order
bswap_32(x) ==
  <<256 * (x[2] % 256) + x[2] \div 256, 256 * (x[1] % 256) + x[1] \div 256>>

\* The FIPS 180-3 4.1.2 functions, as the macros of the non-wasm build
zkwasm_sha256_ch(x, y, z) == Xor32(z, And32(x, Xor32(y, z)))
zkwasm_sha256_maj(x, y, z) == Xor32(And32(x, y), And32(z, Xor32(x, y)))
zkwasm_sha256_lsigma0(x) == Xor32(Xor32(ROTR32(x, 2), ROTR32(x, 13)), ROTR32(x, 22))
zkwasm_sha256_lsigma1(x) == Xor32(Xor32(ROTR32(x, 6), ROTR32(x, 11)), ROTR32(x, 25))
zkwasm_sha256_ssigma0(x) == Xor32(Xor32(ROTR32(x, 7), ROTR32(x, 18)), Shr32(x, 3))
zkwasm_sha256_ssigma1(x) == Xor32(Xor32(ROTR32(x, 17), ROTR32(x, 19)), Shr32(x, 10))

\* ------------------------------------------------------------------------
\* Memory: bytes and the words read and written through uint32_t pointers
\* ------------------------------------------------------------------------

\* The word at word index n (from 0) of a byte array: a little-endian load
LoadWord(mem, n) ==
  <<256 * mem[4 * n + 4] + mem[4 * n + 3], 256 * mem[4 * n + 2] + mem[4 * n + 1]>>

\* The four bytes a little-endian store of word x writes, lowest address first
WordBytes(x) == <<x[2] % 256, x[2] \div 256, x[1] % 256, x[1] \div 256>>

\* The byte array after storing word x at word index n (from 0)
StoreWord(mem, n, x) ==
  SubSeq(mem, 1, 4 * n) \o WordBytes(x) \o SubSeq(mem, 4 * n + 5, Len(mem))

\* ------------------------------------------------------------------------
\* Constants
\* ------------------------------------------------------------------------

sha256_block_size == 64
sha256_hash_size == 32
sha224_hash_size == 28

rhash_k256 == <<
  <<\h428a, \h2f98>>, <<\h7137, \h4491>>, <<\hb5c0, \hfbcf>>, <<\he9b5, \hdba5>>,
  <<\h3956, \hc25b>>, <<\h59f1, \h11f1>>, <<\h923f, \h82a4>>, <<\hab1c, \h5ed5>>,
  <<\hd807, \haa98>>, <<\h1283, \h5b01>>, <<\h2431, \h85be>>, <<\h550c, \h7dc3>>,
  <<\h72be, \h5d74>>, <<\h80de, \hb1fe>>, <<\h9bdc, \h06a7>>, <<\hc19b, \hf174>>,
  <<\he49b, \h69c1>>, <<\hefbe, \h4786>>, <<\h0fc1, \h9dc6>>, <<\h240c, \ha1cc>>,
  <<\h2de9, \h2c6f>>, <<\h4a74, \h84aa>>, <<\h5cb0, \ha9dc>>, <<\h76f9, \h88da>>,
  <<\h983e, \h5152>>, <<\ha831, \hc66d>>, <<\hb003, \h27c8>>, <<\hbf59, \h7fc7>>,
  <<\hc6e0, \h0bf3>>, <<\hd5a7, \h9147>>, <<\h06ca, \h6351>>, <<\h1429, \h2967>>,
  <<\h27b7, \h0a85>>, <<\h2e1b, \h2138>>, <<\h4d2c, \h6dfc>>, <<\h5338, \h0d13>>,
  <<\h650a, \h7354>>, <<\h766a, \h0abb>>, <<\h81c2, \hc92e>>, <<\h9272, \h2c85>>,
  <<\ha2bf, \he8a1>>, <<\ha81a, \h664b>>, <<\hc24b, \h8b70>>, <<\hc76c, \h51a3>>,
  <<\hd192, \he819>>, <<\hd699, \h0624>>, <<\hf40e, \h3585>>, <<\h106a, \ha070>>,
  <<\h19a4, \hc116>>, <<\h1e37, \h6c08>>, <<\h2748, \h774c>>, <<\h34b0, \hbcb5>>,
  <<\h391c, \h0cb3>>, <<\h4ed8, \haa4a>>, <<\h5b9c, \hca4f>>, <<\h682e, \h6ff3>>,
  <<\h748f, \h82ee>>, <<\h78a5, \h636f>>, <<\h84c8, \h7814>>, <<\h8cc7, \h0208>>,
  <<\h90be, \hfffa>>, <<\ha450, \h6ceb>>, <<\hbef9, \ha3f7>>, <<\hc671, \h78f2>> >>

SHA256_H0 == <<
  <<\h6a09, \he667>>, <<\hbb67, \hae85>>, <<\h3c6e, \hf372>>, <<\ha54f, \hf53a>>,
  <<\h510e, \h527f>>, <<\h9b05, \h688c>>, <<\h1f83, \hd9ab>>, <<\h5be0, \hcd19>> >>

\* ------------------------------------------------------------------------
\* sha256_process_block
\* ------------------------------------------------------------------------

\* The message-schedule word round t (0..63) feeds to ROUND, and the circular
\* buffer W (indexed from 1) after it.  Rounds 0..15 (ROUND_1_16) load
\* W[n] = bswap_32(block[n]); rounds 16..63 (ROUND_17_64) run RECALCULATE_W:
\* W[n] += ssigma1(W[(n - 2) & 15]) + W[(n - 7) & 15] + ssigma0(W[(n - 15) & 15])
ScheduleW(W, block, t) ==
  LET n == t % 16
  IN IF t < 16
       THEN [W EXCEPT ![n + 1] = bswap_32(LoadWord(block, n))]
       ELSE [W EXCEPT ![n + 1] =
               Add32(W[n + 1],
                 Add32(Add32(zkwasm_sha256_ssigma1(W[((n + 14) % 16) + 1]),
                             W[((n + 9) % 16) + 1]),
                       zkwasm_sha256_ssigma0(W[((n + 1) % 16) + 1])))]

\* ROUND(a, b, c, d, e, f, g, h, k, data) of round t on the registers
\* v = <<A, B, C, D, E, F, G, H>>.  The unrolled code renames the registers
\* from round to round (A,B,..,H then H,A,..,G, ...): in round t the macro
\* parameter in position j (a = 0 .. h = 7) is register (j - t) mod 8.
ROUND(v, t, k, data) ==
  LET r(j) == ((j + 64 - t) % 8) + 1
      a == v[r(0)]
      b == v[r(1)]
      c == v[r(2)]
      d == v[r(3)]
      e == v[r(4)]
      f == v[r(5)]
      g == v[r(6)]
      h == v[r(7)]
      T1 == Add32(Add32(Add32(Add32(h, zkwasm_sha256_lsigma1(e)),
                              zkwasm_sha256_ch(e, f, g)), k), data)
  IN [v EXCEPT ![r(3)] = Add32(d, T1),
               ![r(7)] = Add32(Add32(T1, zkwasm_sha256_lsigma0(a)),
                               zkwasm_sha256_maj(a, b, c))]

\* One round of the unrolled body: s = <<registers, W>>
RoundStep(s, block, t) ==
  LET W == ScheduleW(s[2], block, t)
  IN <<ROUND(s[1], t, rhash_k256[t + 1], W[(t % 16) + 1]), W>>

RECURSIVE Rounds(_, _, _, _)
\* Rounds lo..hi in order, from s.  The range is halved so that the
\* evaluation stays shallow; the first half is computed before the second
\* starts, as the statements of the C code are.
Rounds(s, block, lo, hi) ==
  IF lo = hi THEN RoundStep(s, block, lo)
  ELSE LET mid == (lo + hi) \div 2
           first == Rounds(s, block, lo, mid)
       IN IF Len(first) = 2 THEN Rounds(first, block, mid + 1, hi) ELSE first

\* static void sha256_process_block(uint32_t hash[8], uint32_t block[16]):
\* the new hash words; block is the 64 bytes the block pointer addresses
sha256_process_block(hash, block) ==
  LET W0 == [i \in 1..16 |-> <<0, 0>>]
      v == Rounds(<<hash, W0>>, block, 0, 63)[1]
  IN [i \in 1..8 |-> Add32(hash[i], v[i])]

\* ------------------------------------------------------------------------
\* uint64_t arithmetic (ctx->length): four 16-bit limbs, most significant
\* first
\* ------------------------------------------------------------------------

Zero64 == <<0, 0, 0, 0>>

\* Limb i of x, i = 0 the least significant; limbs out of range are 0
Limb(x, i) == IF i >= 0 /\ i <= 3 THEN x[4 - i] ELSE 0

\* x + s for a uint64_t x and a uint32_t s: the sum modulo 2^64
Add64(x, s) ==
  LET s0 == x[4] + s[2]
      s1 == x[3] + s[1] + s0 \div Half
      s2 == x[2] + s1 \div Half
      s3 == x[1] + s2 \div Half
  IN <<s3 % Half, s2 % Half, s1 % Half, s0 % Half>>

\* x >> n and x << n on uint64_t, 0 <= n < 64
Shr64(x, n) ==
  LET q == n \div 16
      r == n % 16
      L(i) == (Limb(x, i + q) \div 2^r) + (Limb(x, i + q + 1) % 2^r) * 2^(16 - r)
  IN <<L(3), L(2), L(1), L(0)>>
Shl64(x, n) ==
  LET q == n \div 16
      r == n % 16
      L(i) == (Limb(x, i - q) % 2^(16 - r)) * 2^r + Limb(x, i - q - 1) \div 2^(16 - r)
  IN <<L(3), L(2), L(1), L(0)>>

\* (uint32_t)x for a uint64_t x: the low 32 bits
Trunc32(x) == <<x[3], x[4]>>

\* The uint32_t of a small natural number, and back
U32(n) == <<n \div Half, n % Half>>
Nat32(x) == Half * x[1] + x[2]

\* ------------------------------------------------------------------------
\* struct sha256_ctx and the operations on it.  Each operation is given as
\* the context it leaves; Hash_Update and Hash_Final also give the blocks
\* they hand to sha256_process_block, in call order.
\* ------------------------------------------------------------------------

\* struct sha256_ctx sctx: a global object, zero-initialised
sha256_ctx ==
  [message |-> [i \in 1..sha256_block_size |-> 0],
   length |-> Zero64,
   hash |-> [i \in 1..8 |-> <<0, 0>>],
   digest_length |-> 0]

\* sha256_init that leaves ctx->length as it is
sha256_init_KeepLength(ctx) ==
  [ctx EXCEPT !.digest_length = sha256_hash_size, !.hash = SHA256_H0]

\* void sha256_init()
sha256_init(ctx) ==
  [ctx EXCEPT !.length = Zero64,
              !.digest_length = sha256_hash_size,
              !.hash = SHA256_H0]

\* void Hash_Init(uint32_t bits): bits is not read
Hash_Init(ctx, bits) == sha256_init(ctx)

\* CopyBytes that stores at the start of the array whatever the offset is
CopyBytes_AtStart(mem, at, data, from, n) ==
  SubSeq(data, from + 1, from + n) \o SubSeq(mem, n + 1, Len(mem))

\* The byte array after copying data[from + 1 .. from + n] to offset at
CopyBytes(mem, at, data, from, n) ==
  SubSeq(mem, 1, at) \o SubSeq(data, from + 1, from + n)
    \o SubSeq(mem, at + n + 1, Len(mem))

\* FullBlocks whose cursor does not advance: every slice is the first one
FullBlocks_SameBlock(data, off, size) ==
  [k \in 1..(size \div sha256_block_size) |-> SubSeq(data, off + 1, off + sha256_block_size)]

RECURSIVE FullBlocks_Gt(_, _, _)
\* FullBlocks whose loop runs while size > sha256_block_size
FullBlocks_Gt(data, off, size) ==
  IF size > sha256_block_size
    THEN <<SubSeq(data, off + 1, off + sha256_block_size)>>
           \o FullBlocks_Gt(data, off + sha256_block_size, size - sha256_block_size)
    ELSE <<>>

RECURSIVE FullBlocks(_, _, _)
\* The 64-byte slices of data the while loop of Hash_Update walks: from
\* offset off while size >= sha256_block_size
FullBlocks(data, off, size) ==
  IF size >= sha256_block_size
    THEN <<SubSeq(data, off + 1, off + sha256_block_size)>>
           \o FullBlocks(data, off + sha256_block_size, size - sha256_block_size)
    ELSE <<>>

RECURSIVE ProcessBlocks(_, _, _)
\* hash after sha256_process_block on blocks[n], .., blocks[Len(blocks)]
ProcessBlocks(hash, blocks, n) ==
  IF n > Len(blocks) THEN hash
  ELSE LET h == sha256_process_block(hash, blocks[n])
       IN IF Len(h) = 8 THEN ProcessBlocks(h, blocks, n + 1) ELSE h

\* ctx->length += size
UpdateLength(length, size) == Add64(length, size)

\* UpdateFill that does not return after storing the bytes and processes
\* the buffer although it is not full
UpdateFill_Flush(ctx, size, data) ==
  LET index == Nat32(And32(Trunc32(ctx.length), U32(63)))
      filled == CopyBytes(ctx.message, index, data, 0, size)
  IN [ctx |-> [ctx EXCEPT !.length = UpdateLength(ctx.length, U32(size)),
                          !.message = filled,
                          !.hash = sha256_process_block(ctx.hash, filled)],
      blocks |-> <<filled>>]

\* Hash_Update, the call that does not fill the buffer (index # 0 and
\* size < left): the bytes are stored at offset index and the call returns
UpdateFill(ctx, size, data) ==
  LET index == Nat32(And32(Trunc32(ctx.length), U32(63)))
  IN [ctx |-> [ctx EXCEPT !.length = UpdateLength(ctx.length, U32(size)),
                          !.message = CopyBytes(ctx.message, index, data, 0, size)],
      blocks |-> <<>>]

\* Hash_Update, every other call: the buffer, if it holds bytes, is filled
\* and processed, then the full blocks of the input, and the leftover is
\* saved
UpdateBlocks(ctx, size, data) ==
  LET index == Nat32(And32(Trunc32(ctx.length), U32(63)))
      left == sha256_block_size - index
      filled == IF index # 0 THEN CopyBytes(ctx.message, index, data, 0, left)
                ELSE ctx.message
      off == IF index # 0 THEN left ELSE 0
      rest == size - off
      tail == rest % sha256_block_size
      blocks == (IF index # 0 THEN <<filled>> ELSE <<>>) \o FullBlocks(data, off, rest)
  IN [ctx |-> [ctx EXCEPT
                 !.length = UpdateLength(ctx.length, U32(size)),
                 !.hash = ProcessBlocks(ctx.hash, blocks, 1),
                 !.message = IF tail # 0
                               THEN CopyBytes(filled, 0, data, size - tail, tail)
                               ELSE filled],
      blocks |-> blocks]

\* void Hash_Update(uint32_t size, const uint8_t *data); data holds size
\* bytes
Hash_Update(ctx, size, data) ==
  LET index == Nat32(And32(Trunc32(ctx.length), U32(63)))
      left == sha256_block_size - index
  IN IF index # 0 /\ size < left
       THEN UpdateFill(ctx, size, data)
       ELSE UpdateBlocks(ctx, size, data)

\* ZeroWords whose loop starts one word late
ZeroWords_Late(mem, from, to) ==
  IF from + 1 >= to THEN mem
  ELSE SubSeq(mem, 1, 4 * (from + 1)) \o [i \in 1..4 * (to - from - 1) |-> 0]
         \o SubSeq(mem, 4 * to + 1, Len(mem))

\* The byte array with words from .. to - 1 set to 0 (the zero-fill loops;
\* nothing is written when from >= to)
ZeroWords(mem, from, to) ==
  IF from >= to THEN mem
  ELSE SubSeq(mem, 1, 4 * from) \o [i \in 1..4 * (to - from) |-> 0]
         \o SubSeq(mem, 4 * to + 1, Len(mem))

\* AppendPad without the clearing of the bytes from bit shift on
AppendPad_NoClear(mem, index, shift) ==
  StoreWord(mem, index, Xor32(LoadWord(mem, index), Shl32(U32(128), shift)))

\* The buffer after Hash_Final has appended the byte 0x80 behind the
\* buffered bytes: in word index, the bytes from bit shift on are cleared
\* (message[index] &= ~(0xFFFFFFFFu << shift)) and the byte is set
\* (message[index] ^= 0x80u << shift)
AppendPad(mem, index, shift) ==
  LET ones == <<Half - 1, Half - 1>>
      cleared == And32(LoadWord(mem, index), Not32(Shl32(ones, shift)))
  IN StoreWord(mem, index, Xor32(cleared, Shl32(U32(128), shift)))

\* FinalLength that casts ctx->length to uint32_t before it shifts
FinalLength_CastFirst(mem, length) ==
  StoreWord(StoreWord(mem, 14, bswap_32(Shr32(Trunc32(length), 29))),
            15, bswap_32(Shl32(Trunc32(length), 3)))

\* The buffer after Hash_Final has stored the message length in bits:
\* message[14] = bswap_32((uint32_t)(ctx->length >> 29));
\* message[15] = bswap_32((uint32_t)(ctx->length << 3))
FinalLength(mem, length) ==
  StoreWord(StoreWord(mem, 14, bswap_32(Trunc32(Shr64(length, 29)))),
            15, bswap_32(Trunc32(Shl64(length, 3))))

\* The bytes of hash[8] in memory order
HashBytes(hash) == [i \in 1..32 |-> WordBytes(hash[((i - 1) \div 4) + 1])[((i - 1) % 4) + 1]]

\* void Hash_Final(uint8_t *output): the context left, the blocks
\* compressed and the digest_length bytes written to output
Hash_Final(ctx) ==
  LET index == Nat32(Shr32(And32(Trunc32(ctx.length), U32(63)), 2))
      shift == Nat32(And32(Trunc32(ctx.length), U32(3))) * 8
      \* append the byte 0x80 to the message
      m1 == AppendPad(ctx.message, index, shift)
      index1 == index + 1
      \* no room left in the message to store 64-bit message length
      noroom == index1 > 14
      m2 == IF noroom THEN ZeroWords(m1, index1, 16) ELSE m1
      h2 == IF noroom THEN sha256_process_block(ctx.hash, m2) ELSE ctx.hash
      index2 == IF noroom THEN 0 ELSE index1
      m3 == ZeroWords(m2, index2, 14)
      m5 == FinalLength(m3, ctx.length)
      blocks == IF noroom THEN <<m2, m5>> ELSE <<m5>>
      h3 == IF Len(h2) = 8 THEN sha256_process_block(h2, m5) ELSE h2
      h4 == [i \in 1..8 |-> bswap_32(h3[i])]
  IN [ctx |-> [ctx EXCEPT !.message = m5, !.hash = h4],
      blocks |-> blocks,
      output |-> SubSeq(HashBytes(h4), 1, ctx.digest_length)]

\* void SHA256_Digest(uint8_t *output, uint32_t size, const uint8_t *msg)
SHA256_Digest(ctx, size, msg) ==
  LET updated == Hash_Update(Hash_Init(ctx, 256), size, msg)
      final == Hash_Final(updated.ctx)
  IN [ctx |-> final.ctx,
      blocks |-> updated.blocks \o final.blocks,
      output |-> final.output]

\* ------------------------------------------------------------------------
\* The callers and their inputs
\* ------------------------------------------------------------------------

\* Longest message fed to one computation
MaxLen == 128
\* Most Hash_Update calls of one computation
MaxUpdates == 3

\* The computations that use the context
Callers == {1, 2}

\* The messages hashed: message 1 starts with "abc" and goes on with varied
\* bytes, message 2 is all 0xFF
Message(m) ==
  [i \in 1..MaxLen |->
     IF m = 2 THEN 255
     ELSE IF i <= 3 THEN <<97, 98, 99>>[i]
     ELSE (7 * i + 1) % 256]

\* Chunk sizes of Hash_Update and message sizes of SHA256_Digest
Sizes == {0, 1, 3, 55, 63, 64, 65, 128}
DigestSizes == {0, 3, 56, 120}

VARIABLES
  sctx,     \* struct sha256_ctx sctx, the one context (ctx points to it)
  output,   \* output[c]: the bytes Hash_Final wrote to caller c's buffer
  pc,       \* pc[c]: "new" before Hash_Init, "open" after it, "done" after Hash_Final
  msg,      \* msg[c]: the message caller c hashes
  fed,      \* fed[c]: how many bytes of it c has passed to Hash_Update
  bits,     \* bits[c]: the argument of c's Hash_Init
  nupd,     \* nupd[c]: the Hash_Update calls c has made
  intact,   \* intact[c]: no call of another caller since c's Hash_Init
  last,     \* the last call: its name, caller and size
  blocks,   \* the blocks the last call handed to sha256_process_block
  stream    \* the blocks handed to sha256_process_block since the last Hash_Init

vars == <<sctx, output, pc, msg, fed, bits, nupd, intact, last, blocks, stream>>

\* The bytes caller c has fed, and the next size bytes of its message
Fed(c) == SubSeq(Message(msg[c]), 1, fed[c])
Chunk(c, size) == SubSeq(Message(msg[c]), fed[c] + 1, fed[c] + size)

Init ==
  /\ sctx = sha256_ctx
  /\ output = [c \in Callers |-> <<>>]
  /\ pc = [c \in Callers |-> "new"]
  /\ msg = [c \in Callers |-> c]
  /\ fed = [c \in Callers |-> 0]
  /\ bits = [c \in Callers |-> 0]
  /\ nupd = [c \in Callers |-> 0]
  /\ intact = [c \in Callers |-> TRUE]
  /\ last = [op |-> "none", caller |-> 0, size |-> 0]
  /\ blocks = <<>>
  /\ stream = <<>>

\* Every call acts on the one context: a call of c ends the undisturbed use
\* of it by the callers that are between their Hash_Init and Hash_Final
Disturb(c) ==
  [d \in Callers |-> IF d # c /\ pc[d] = "open" THEN FALSE ELSE intact[d]]

\* Caller c starts hashing message m: Hash_Init(b)
CallInit(c, m, b) ==
  /\ pc[c] = "new"
  /\ sctx' = Hash_Init(sctx, b)
  /\ pc' = [pc EXCEPT ![c] = "open"]
  /\ msg' = [msg EXCEPT ![c] = m]
  /\ fed' = [fed EXCEPT ![c] = 0]
  /\ bits' = [bits EXCEPT ![c] = b]
  /\ intact' = [Disturb(c) EXCEPT ![c] = TRUE]
  /\ last' = [op |-> "Hash_Init", caller |-> c, size |-> 0]
  /\ blocks' = <<>>
  /\ stream' = <<>>
  /\ UNCHANGED <<output, nupd>>

\* Caller c feeds the next size bytes of its message: Hash_Update(size, data)
CallUpdate(c, size, most) ==
  /\ pc[c] = "open"
  /\ nupd[c] < most
  /\ fed[c] + size <= MaxLen
  /\ \E r \in {Hash_Update(sctx, size, Chunk(c, size))} :
        /\ sctx' = r.ctx
        /\ blocks' = r.blocks
        /\ stream' = stream \o r.blocks
  /\ fed' = [fed EXCEPT ![c] = fed[c] + size]
  /\ nupd' = [nupd EXCEPT ![c] = nupd[c] + 1]
  /\ intact' = Disturb(c)
  /\ last' = [op |-> "Hash_Update", caller |-> c, size |-> size]
  /\ UNCHANGED <<output, pc, msg, bits>>

\* Caller c ends its computation: Hash_Final(output)
CallFinal(c) ==
  /\ pc[c] = "open"
  /\ \E r \in {Hash_Final(sctx)} :
        /\ sctx' = r.ctx
        /\ blocks' = r.blocks
        /\ stream' = stream \o r.blocks
        /\ output' = [output EXCEPT ![c] = r.output]
  /\ pc' = [pc EXCEPT ![c] = "done"]
  /\ intact' = Disturb(c)
  /\ last' = [op |-> "Hash_Final", caller |-> c, size |-> 0]
  /\ UNCHANGED <<msg, fed, bits, nupd>>

\* Caller c hashes the first size bytes of message m in one call:
\* SHA256_Digest(output, size, msg)
CallDigest(c, m, size) ==
  /\ pc[c] = "new"
  /\ \E r \in {SHA256_Digest(sctx, size, SubSeq(Message(m), 1, size))} :
        /\ sctx' = r.ctx
        /\ blocks' = r.blocks
        /\ stream' = r.blocks
        /\ output' = [output EXCEPT ![c] = r.output]
  /\ pc' = [pc EXCEPT ![c] = "done"]
  /\ msg' = [msg EXCEPT ![c] = m]
  /\ fed' = [fed EXCEPT ![c] = size]
  /\ bits' = [bits EXCEPT ![c] = 256]
  /\ intact' = [Disturb(c) EXCEPT ![c] = TRUE]
  /\ last' = [op |-> "SHA256_Digest", caller |-> c, size |-> size]
  /\ UNCHANGED nupd

\* One caller, one computation: Hash_Init, Hash_Update in chunks, Hash_Final,
\* or SHA256_Digest
Next ==
  \/ \E m \in {1, 2} : CallInit(1, m, 256)
  \/ \E size \in Sizes : CallUpdate(1, size, MaxUpdates)
  \/ CallFinal(1)
  \/ \E m \in {1, 2}, size \in DigestSizes : CallDigest(1, m, size)

Spec == Init /\ [][Next]_vars

\* ------------------------------------------------------------------------
\* Two callers on the one context
\* ------------------------------------------------------------------------

\* Most Hash_Update calls of one computation when two callers take turns
MaxSharedUpdates == 1
\* The chunk size of caller 1 and of caller 2
SharedSizes == <<3, 61>>

\* Caller 1 hashes message 1 and caller 2 message 2, each with Hash_Init,
\* Hash_Update on chunks of its size and Hash_Final, their calls in any order
NextShared ==
  \E c \in Callers :
    \/ \E b \in {224, 256} : CallInit(c, c, b)
    \/ CallUpdate(c, SharedSizes[c], MaxSharedUpdates)
    \/ CallFinal(c)

SpecShared == Init /\ [][NextShared]_vars

\* ------------------------------------------------------------------------
\* The length field alone: ctx->length under Hash_Update and the two words
\* Hash_Final stores from it.  Neither depends on the rest of the context,
\* which is left as constructed here; the lengths are those a context has
\* after that many bytes.  Here blocks is the length the context starts with
\* and stream the sizes passed to Hash_Update since.
\* ------------------------------------------------------------------------

\* Most Hash_Update calls on one length
MaxLenSteps == 2

\* 0, 2^29 - 1, 2^32 - 1, 2^61 - 1 and 2^64 - 1 bytes
BaseLengths ==
  {Zero64,
   <<0, 0, \h1fff, \hffff>>,
   <<0, 0, \hffff, \hffff>>,
   <<\h1fff, \hffff, \hffff, \hffff>>,
   <<\hffff, \hffff, \hffff, \hffff>>}

\* Sizes of Hash_Update as uint32_t: 1, 64, 2^29 and 2^32 - 1
LenSizes == {<<0, 1>>, <<0, 64>>, <<\h2000, 0>>, <<\hffff, \hffff>>}

InitLen ==
  /\ \E L \in BaseLengths :
        /\ sctx = [sha256_ctx EXCEPT !.length = L]
        /\ blocks = L
  /\ output = [c \in Callers |-> <<>>]
  /\ pc = [c \in Callers |-> IF c = 1 THEN "open" ELSE "new"]
  /\ msg = [c \in Callers |-> c]
  /\ fed = [c \in Callers |-> 0]
  /\ bits = [c \in Callers |-> 0]
  /\ nupd = [c \in Callers |-> 0]
  /\ intact = [c \in Callers |-> TRUE]
  /\ last = [op |-> "none", caller |-> 0, size |-> 0]
  /\ stream = <<>>

\* Hash_Update(size, data), its effect on ctx->length
LenUpdate(size) ==
  /\ pc[1] = "open"
  /\ nupd[1] < MaxLenSteps
  /\ sctx' = [sctx EXCEPT !.length = UpdateLength(sctx.length, size)]
  /\ nupd' = [nupd EXCEPT ![1] = nupd[1] + 1]
  /\ last' = [op |-> "length += size", caller |-> 1, size |-> size]
  /\ stream' = Append(stream, size)
  /\ UNCHANGED <<output, pc, msg, fed, bits, intact, blocks>>

\* Hash_Final, its stores to message[14] and message[15]
LenFinal ==
  /\ pc[1] = "open"
  /\ sctx' = [sctx EXCEPT !.message = FinalLength(sctx.message, sctx.length)]
  /\ pc' = [pc EXCEPT ![1] = "done"]
  /\ last' = [op |-> "message[14], message[15]", caller |-> 1, size |-> 0]
  /\ UNCHANGED <<output, msg, fed, bits, nupd, intact, blocks, stream>>

NextLen ==
  \/ \E size \in LenSizes : LenUpdate(size)
  \/ LenFinal

SpecLen == InitLen /\ [][NextLen]_vars

\* ------------------------------------------------------------------------
\* Properties
\* ------------------------------------------------------------------------

\* A byte count as a uint64_t
Len64(n) == <<0, 0, n \div Half, n % Half>>

\* The last n bytes of a byte sequence
LastBytes(M, n) == SubSeq(M, Len(M) - n + 1, Len(M))

\* Block k (from 1) of a byte sequence
BlockOf(M, k) == SubSeq(M, sha256_block_size * (k - 1) + 1, sha256_block_size * k)

RECURSIVE FoldBlocks(_, _, _)
\* h folded through the compression function over blocks 1..k of M, in order
FoldBlocks(h, M, k) ==
  IF k = 0 THEN h
  ELSE LET g == FoldBlocks(h, M, k - 1)
       IN IF Len(g) = 8 THEN sha256_process_block(g, BlockOf(M, k)) ELSE g

\* The blocks of a sequence of blocks, end to end
RECURSIVE Flatten(_)
Flatten(bs) == IF bs = <<>> THEN <<>> ELSE Head(bs) \o Flatten(Tail(bs))

\* The 8-byte length field of an n-byte message, n * 8 < 2^16
LenField(n) == <<0, 0, 0, 0, 0, 0, (8 * n) \div 256, (8 * n) % 256>>

\* The padding of an n-byte message: 0x80, zero bytes up to 8 short of a
\* multiple of 64, and the length field
Padding(n) ==
  <<128>> \o [i \in 1..((119 - (n % 64)) % 64) |-> 0] \o LenField(n)

\* The context after Hash_Init and one Hash_Update of all of M, and the
\* digest SHA256_Digest writes for M, from a context never used before
OneUpdate(M) == Hash_Update(Hash_Init(sha256_ctx, 256), Len(M), M).ctx
OneShot(M) == SHA256_Digest(sha256_ctx, Len(M), M).output

\* C1: split-invariance.  However the bytes fed so far were split into
\* Hash_Update calls, the hash state and the length are those one Hash_Update
\* of the whole input leaves, and the digest Hash_Final writes is the one-shot
\* digest of the input.
SplitInvariance ==
  /\ pc[1] = "open" =>
       /\ sctx.hash = OneUpdate(Fed(1)).hash
       /\ sctx.length = OneUpdate(Fed(1)).length
  /\ pc[1] = "done" => output[1] = OneShot(Fed(1))

\* A 120-byte message fed as two chunks (55 + 65 or 65 + 55, both cross the
\* 64-byte boundary inside a chunk) and finalised
SplitWitness ==
  /\ pc[1] = "done"
  /\ last.op = "Hash_Final"
  /\ fed[1] = 120
  /\ nupd[1] = 2
  /\ msg[1] = 1

\* C2: the context invariant.  After Hash_Init and any Hash_Update calls that
\* fed L bytes: length = L, the first L mod 64 bytes of message are the last
\* L mod 64 bytes of the input, and hash is the initial value folded through
\* the compression function over the first L div 64 blocks of the input, which
\* are exactly the blocks compressed so far.
ContextInvariant ==
  pc[1] = "open" =>
    /\ sctx.length = Len64(fed[1])
    /\ SubSeq(sctx.message, 1, fed[1] % sha256_block_size)
         = LastBytes(Fed(1), fed[1] % sha256_block_size)
    /\ sctx.hash = FoldBlocks(SHA256_H0, Fed(1), fed[1] \div sha256_block_size)
    /\ stream = [k \in 1..(fed[1] \div sha256_block_size) |-> BlockOf(Fed(1), k)]

\* 65 bytes fed in two or more calls: one block compressed, one byte buffered
ContextWitness ==
  /\ pc[1] = "open"
  /\ fed[1] = 65
  /\ nupd[1] >= 2
  /\ Len(stream) = 1

\* The digests of "" and "abc"
DigestEmpty ==
  <<227, 176, 196, 66, 152, 252, 28, 20, 154, 251, 244, 200, 153, 111, 185, 36,
    39, 174, 65, 228, 100, 155, 147, 76, 164, 149, 153, 27, 120, 82, 184, 85>>
DigestAbc ==
  <<186, 120, 22, 191, 143, 1, 207, 234, 65, 65, 64, 222, 93, 174, 34, 35,
    176, 3, 97, 163, 150, 23, 122, 156, 180, 16, 255, 97, 242, 0, 21, 173>>

\* The compression function with the 64-entry message schedule: W[1..16] are
\* the big-endian words of the block, W[t] = ssigma1(W[t-2]) + W[t-7]
\* + ssigma0(W[t-15]) + W[t-16] after them, and the eight working variables
\* a..h shift by one place every round
RefWord(block, t) ==
  <<256 * block[4 * t - 3] + block[4 * t - 2], 256 * block[4 * t - 1] + block[4 * t]>>

RECURSIVE RefSchedule(_, _, _)
RefSchedule(W, lo, hi) ==
  IF lo = hi
    THEN Append(W, Add32(Add32(zkwasm_sha256_ssigma1(W[lo - 2]), W[lo - 7]),
                         Add32(zkwasm_sha256_ssigma0(W[lo - 15]), W[lo - 16])))
    ELSE LET mid == (lo + hi) \div 2
             first == RefSchedule(W, lo, mid)
         IN IF Len(first) = mid THEN RefSchedule(first, mid + 1, hi) ELSE first

RefRound(s, W, t) ==
  LET T1 == Add32(Add32(Add32(s[8], zkwasm_sha256_lsigma1(s[5])),
                        Add32(zkwasm_sha256_ch(s[5], s[6], s[7]), rhash_k256[t])),
                  W[t])
      T2 == Add32(zkwasm_sha256_lsigma0(s[1]), zkwasm_sha256_maj(s[1], s[2], s[3]))
  IN <<Add32(T1, T2), s[1], s[2], s[3], Add32(s[4], T1), s[5], s[6], s[7]>>

RECURSIVE RefRounds(_, _, _, _)
RefRounds(s, W, lo, hi) ==
  IF lo = hi THEN RefRound(s, W, lo)
  ELSE LET mid == (lo + hi) \div 2
           first == RefRounds(s, W, lo, mid)
       IN IF Len(first) = 8 THEN RefRounds(first, W, mid + 1, hi) ELSE first

RefCompress(hash, block) ==
  LET W == RefSchedule([t \in 1..16 |-> RefWord(block, t)], 17, 64)
      s == RefRounds(hash, W, 1, 64)
  IN [i \in 1..8 |-> Add32(hash[i], s[i])]

RECURSIVE RefFold(_, _, _)
RefFold(h, bs, k) ==
  IF k = 0 THEN h
  ELSE LET g == RefFold(h, bs, k - 1)
       IN IF Len(g) = 8 THEN RefCompress(g, bs[k]) ELSE g

\* The words of a hash value as bytes, each word most significant byte first
RefBytes(hash) ==
  [i \in 1..32 |->
     LET w == hash[((i - 1) \div 4) + 1]
     IN <<w[1] \div 256, w[1] % 256, w[2] \div 256, w[2] % 256>>[((i - 1) % 4) + 1]]

\* C5: known vectors.  SHA256_Digest writes e3b0c442..7852b855 for the empty
\* message and ba7816bf..f20015ad for "abc", and whatever it hashes, the
\* digest is the one the 64-entry schedule gives on the blocks compressed.
KnownVectors ==
  last.op = "SHA256_Digest" =>
    /\ fed[1] = 0 => output[1] = DigestEmpty
    /\ (fed[1] = 3 /\ msg[1] = 1) => output[1] = DigestAbc
    /\ output[1] = RefBytes(RefFold(SHA256_H0, stream, Len(stream)))

\* SHA256_Digest has hashed "abc"
KnownVectorsWitness ==
  /\ last.op = "SHA256_Digest"
  /\ fed[1] = 3
  /\ msg[1] = 1
  /\ Fed(1) = <<97, 98, 99>>
  /\ Len(output[1]) = 32

\* C6: the padding of Hash_Final.  With r = length mod 64, Hash_Final
\* compresses one block when r <= 55 and two when r >= 56; the bytes it
\* compresses are the r buffered bytes, 0x80, zero bytes and the 8-byte length
\* field, and all the bytes compressed since Hash_Init are the input followed
\* by that padding: the smallest multiple of 64 that is at least length + 9.
FinalPadding ==
  last.op = "Hash_Final" =>
    LET r == fed[1] % sha256_block_size
    IN /\ Len(blocks) = IF r <= 55 THEN 1 ELSE 2
       /\ Flatten(blocks) = LastBytes(Fed(1), r) \o Padding(fed[1])
       /\ Flatten(stream) = Fed(1) \o Padding(fed[1])
       /\ sha256_block_size * Len(stream)
            = sha256_block_size * ((fed[1] + 9 + sha256_block_size - 1) \div sha256_block_size)

\* Hash_Final on 56 buffered bytes (120 fed): the padding takes a second block
FinalPaddingWitness ==
  /\ last.op = "Hash_Final"
  /\ fed[1] = 120
  /\ Len(blocks) = 2
  /\ Len(stream) = 3

\* C8: a Hash_Update of length 0 leaves the context as it was and compresses
\* nothing.
UpdateZeroFrame ==
  [][(last'.op = "Hash_Update" /\ last'.size = 0) =>
       (sctx' = sctx /\ blocks' = <<>> /\ stream' = stream)]_vars

\* A Hash_Update of length 0 was made on a partly filled buffer
UpdateZeroWitness ==
  /\ last.op = "Hash_Update"
  /\ last.size = 0
  /\ fed[1] % sha256_block_size = 55
  /\ nupd[1] = 2

\* C9: the compressions of Hash_Update.  With index = length mod 64 before
\* the call, Hash_Update(size, data) compresses (index + size) div 64 blocks.
\* When index > 0 and size < 64 - index it stores data at offset index and
\* leaves hash and message bytes [0, index) alone; when index = 0 and size is
\* a multiple of 64 the blocks compressed are the slices of data and message
\* is left alone.  After the call (index + size) mod 64 bytes are buffered.
UpdateCompressions ==
  [][last'.op = "Hash_Update" =>
       LET index == fed[1] % sha256_block_size
           size == last'.size
           data == Chunk(1, size)
           after == (index + size) % sha256_block_size
       IN /\ Len(blocks') = (index + size) \div sha256_block_size
          /\ (index > 0 /\ size < sha256_block_size - index) =>
               /\ sctx'.hash = sctx.hash
               /\ SubSeq(sctx'.message, 1, index) = SubSeq(sctx.message, 1, index)
               /\ SubSeq(sctx'.message, index + 1, index + size) = data
          /\ (index = 0 /\ size % sha256_block_size = 0) =>
               /\ sctx'.message = sctx.message
               /\ blocks' = [k \in 1..(size \div sha256_block_size) |-> BlockOf(data, k)]
          /\ SubSeq(sctx'.message, 1, after) = LastBytes(Fed(1) \o data, after)]_vars

\* One byte stored behind 55 buffered ones: no block is compressed
UpdateCompressionsWitness ==
  /\ last.op = "Hash_Update"
  /\ last.size = 1
  /\ fed[1] = 56
  /\ blocks = <<>>

\* The initial hash value of SHA-224 and the SHA-224 digest of "abc"
SHA224_H0 ==
  <<<<\hc105, \h9ed8>>, <<\h367c, \hd507>>, <<\h3070, \hdd17>>, <<\hf70e, \h5939>>,
    <<\hffc0, \h0b31>>, <<\h6858, \h1511>>, <<\h64f9, \h8fa7>>, <<\hbefa, \h4fa4>>>>
Digest224Abc ==
  <<35, 9, 125, 34, 52, 5, 216, 34, 134, 66, 164, 119, 189, 162, 85, 179,
    42, 173, 188, 228, 189, 160, 179, 247, 227, 108, 157, 167>>

\* C3: Hash_Init(bits) selects the variant.  After Hash_Init(224) hash is the
\* SHA-224 initial value and digest_length is 28, so that Hash_Final writes 28
\* bytes, 23097d22..e36c9da7 for "abc"; after Hash_Init(256) hash is the
\* SHA-256 initial value and digest_length is 32; length is 0 in both cases.
VariantSelection ==
  \A c \in Callers :
    /\ (last.op = "Hash_Init" /\ last.caller = c) =>
         /\ sctx.length = Zero64
         /\ bits[c] = 224 =>
              (sctx.hash = SHA224_H0 /\ sctx.digest_length = sha224_hash_size)
         /\ bits[c] = 256 =>
              (sctx.hash = SHA256_H0 /\ sctx.digest_length = sha256_hash_size)
    /\ (pc[c] = "done" /\ intact[c] /\ bits[c] = 224) =>
         /\ Len(output[c]) = sha224_hash_size
         /\ Fed(c) = <<97, 98, 99>> => output[c] = Digest224Abc

ReinitComplete ==
  \A c \in Callers :
    /\ (pc[c] = "open" /\ intact[c]) =>
         /\ sctx.hash = OneUpdate(Fed(c)).hash
         /\ sctx.length = OneUpdate(Fed(c)).length
         /\ SubSeq(sctx.message, 1, fed[c] % sha256_block_size)
              = SubSeq(OneUpdate(Fed(c)).message, 1, fed[c] % sha256_block_size)
    /\ (pc[c] = "done" /\ intact[c]) => output[c] = OneShot(Fed(c))

\* Caller 1 has hashed "abc" after caller 2 left 61 bytes 0xFF in message,
\* so that the word the byte 0x80 goes to held a stale byte
ReinitWitness ==
  /\ last.op = "Hash_Final"
  /\ last.caller = 1
  /\ intact[1]
  /\ fed[1] = 3
  /\ fed[2] = 61
  /\ output[1] = DigestAbc

\* x * 8 for a uint64_t x as five limbs, nothing dropped
Times8(x) ==
  LET m0 == 8 * x[4]
      m1 == 8 * x[3] + m0 \div Half
      m2 == 8 * x[2] + m1 \div Half
      m3 == 8 * x[1] + m2 \div Half
  IN <<m3 \div Half, m3 % Half, m2 % Half, m1 % Half, m0 % Half>>

\* The bytes of a sequence of 16-bit limbs, most significant first
BigEndian(x) ==
  [i \in 1..2 * Len(x) |->
     IF i % 2 = 1 THEN x[(i + 1) \div 2] \div 256 ELSE x[i \div 2] % 256]

RECURSIVE AddBytes(_, _, _, _)
\* a + b on byte sequences of one length, most significant byte first, from
\* byte i down with carry in; the carry out of the first byte is dropped
AddBytes(a, b, i, carry) ==
  IF i = 0 THEN <<>>
  ELSE Append(AddBytes(a, b, i - 1, (a[i] + b[i] + carry) \div 256),
              (a[i] + b[i] + carry) % 256)

RECURSIVE SumBytes(_, _)
\* The 8-byte sum of the uint32_t sizes in a sequence, modulo 2^64
SumBytes(base, sizes) ==
  IF sizes = <<>> THEN base
  ELSE SumBytes(AddBytes(base, <<0, 0, 0, 0>> \o BigEndian(Head(sizes)), 8, 0),
                Tail(sizes))

\* C7: the length encoding.  length is the number of bytes passed to
\* Hash_Update modulo 2^64, and the last 8 bytes of the block Hash_Final
\* completes are length * 8 as a big-endian 64-bit integer, word 14 the high
\* and word 15 the low 32 bits: exactly length * 8 when length < 2^61, also
\* across 2^29 bytes, and length * 8 modulo 2^64 from 2^61 on.
LengthEncoding ==
  /\ last.op = "length += size" =>
       BigEndian(sctx.length) = SumBytes(BigEndian(blocks), stream)
  /\ last.op = "message[14], message[15]" =>
       LET bitlen == Times8(sctx.length)
       IN /\ SubSeq(sctx.message, 57, 64) = BigEndian(SubSeq(bitlen, 2, 5))
          /\ bswap_32(LoadWord(sctx.message, 14)) = <<bitlen[2], bitlen[3]>>
          /\ bswap_32(LoadWord(sctx.message, 15)) = <<bitlen[4], bitlen[5]>>
          /\ (sctx.length[1] < 2^13) = (bitlen[1] = 0)

\* The length went from 2^32 - 1 to 2^32 bytes and its words were stored:
\* the bit length 2^35 has its one set bit in word 14
LengthWitness ==
  /\ last.op = "message[14], message[15]"
  /\ nupd[1] = 1
  /\ sctx.length = <<0, 1, 0, 0>>
  /\ SubSeq(sctx.message, 57, 64) = <<0, 0, 0, 8, 0, 0, 0, 0>>
====
